---- MODULE Spec2Model ----
(***************************************************************************)
(* Model of the desktop companion (src/main.py, class Buddy): the          *)
(* animation/behaviour engine, the speech bubble and the pointer drag.     *)
(* Every handler of the Qt event loop is one action; a handler runs to     *)
(* completion before the next one is dispatched.                           *)
(***************************************************************************)
EXTENDS Integers, Sequences, FiniteSets, TLC

(* ------------------------------ bounds --------------------------------- *)

\* largest number of frames an animation folder yields
MaxFrames == 3
\* size of the window (setFixedSize / resize in the constructor)
WinW == 64
WinH == 124

(* ------------------------- program constants --------------------------- *)

IdleMs == 300
DefaultMs == 100
DelayMin == 8000
DelayMax == 25000
SayMs == 2500

\* animation folders that may exist under assets/sprites
AnimNames == {"idle", "wave", "dance"}
\* a name no folder has
AbsentName == "nope"
\* names a play request may carry
PlayNames == AnimNames \cup {AbsentName}

\* the decoded frames of folder n when it yields k frames
FramesOf(n, k) == [i \in 1..k |-> <<n, i>>]
\* label content when no pixmap was set
NoPixmap == <<"", 0>>
\* the decoded fallback image assets/sprites/buddy.png
SpritePixmap == <<"buddy.png", 1>>
\* state of the fallback image on disk
SpriteStates == {"missing", "undecodable", "ok"}

\* Python None for _drag_offset
None == <<>>
LeftButton == "Left"
RightButton == "Right"
Buttons == {LeftButton, RightButton}
\* where the window is first shown
HomePos == <<100, 100>>
\* global pointer positions the pointer events carry
PointerPositions == {<<110, 110>>, <<150, 140>>, <<110, 140>>}

\* delays random.randint(8000, 25000) is sampled at
DelaySamples == {DelayMin, DelayMax}

StoppedTimer == [active |-> FALSE, interval |-> 0]
StartedTimer(ms) == [active |-> TRUE, interval |-> ms]

VARIABLES
    mode,             \* how far the constructor got: "engine", "label", "crashed"
    anims,            \* self.anims
    current_anim, current_frames, current_loop, anim_i, frame_ms,
    label_pixmap,     \* pixmap shown by self.label
    anim_timer, behavior_timer,
    bubble_text, bubble_visible, bubble_timer,
    pos,              \* top-left corner of the window
    drag_offset,      \* self._drag_offset
    buttons,          \* mouse buttons currently held over the window
    error,            \* exception raised by the handler that ran last, "" if none
    event,            \* the handler the event loop dispatched last, with its arguments
    before,           \* the program state that handler started from
    played,           \* the last play request and the ticks that followed it directly
    now,              \* the time in ms since start-up
    bubble_due,       \* the time at which the armed bubble_timer expires
    bubble_log,       \* the last say request and the hides that followed it
    job,              \* the input of the file operation under study
    result            \* what that operation has produced so far

progvars == <<mode, anims, current_anim, current_frames, current_loop, anim_i,
              frame_ms, label_pixmap, anim_timer, behavior_timer, bubble_text,
              bubble_visible, bubble_timer, pos, drag_offset, buttons, error>>
\* the clock, the bubble deadline and the file operations
aux == <<now, bubble_due, bubble_log, job, result>>
vars == <<progvars, event, before, played, aux>>

\* the program state as one record
State ==
    [mode |-> mode, anims |-> anims, current_anim |-> current_anim,
     current_frames |-> current_frames, current_loop |-> current_loop,
     anim_i |-> anim_i, frame_ms |-> frame_ms, label_pixmap |-> label_pixmap,
     anim_timer |-> anim_timer, behavior_timer |-> behavior_timer,
     bubble_text |-> bubble_text, bubble_visible |-> bubble_visible,
     bubble_timer |-> bubble_timer, pos |-> pos, drag_offset |-> drag_offset,
     buttons |-> buttons, error |-> error]

\* the next program state is the record s
Becomes(s) ==
    /\ mode' = s.mode
    /\ anims' = s.anims
    /\ current_anim' = s.current_anim
    /\ current_frames' = s.current_frames
    /\ current_loop' = s.current_loop
    /\ anim_i' = s.anim_i
    /\ frame_ms' = s.frame_ms
    /\ label_pixmap' = s.label_pixmap
    /\ anim_timer' = s.anim_timer
    /\ behavior_timer' = s.behavior_timer
    /\ bubble_text' = s.bubble_text
    /\ bubble_visible' = s.bubble_visible
    /\ bubble_timer' = s.bubble_timer
    /\ pos' = s.pos
    /\ drag_offset' = s.drag_offset
    /\ buttons' = s.buttons
    /\ error' = s.error

(* ------------------------------ helpers -------------------------------- *)

\* self.anims.get(name, [])
AnimGet(a, name) == IF name \in DOMAIN a THEN a[name] ELSE <<>>

\* self.anim_speeds.get(anim_name, self.anim_speeds["_default"])
anim_speeds(name) ==
    IF name = "idle" THEN IdleMs ELSE DefaultMs

\* set_pixmap: shows pix, then reads self.canvas_w, which exists only once
\* the constructor got past the idle check
set_pixmap(s, pix) ==
    LET s1 == [s EXCEPT !.label_pixmap = pix]
    IN  IF s.mode = "engine" THEN s1 ELSE [s1 EXCEPT !.error = "AttributeError"]

\* set_sprite: the fallback image
set_sprite(s, sprite) ==
    IF sprite = "ok" THEN set_pixmap(s, SpritePixmap) ELSE s

\* schedule_next_action arming the timer with a tenth of the delay
schedule_next_action_short(s, d) ==
    IF s.mode = "engine"
    THEN [s EXCEPT !.behavior_timer = StartedTimer(d \div 10)]
    ELSE [s EXCEPT !.error = "AttributeError"]

\* schedule_next_action with the random delay d
schedule_next_action(s, d) ==
    IF s.mode = "engine"
    THEN [s EXCEPT !.behavior_timer = StartedTimer(d)]
    ELSE [s EXCEPT !.error = "AttributeError"]

\* play resetting the frame index before it looks the animation up
play_resetsFirst(s, anim_name, loop) ==
    LET frames == AnimGet(s.anims, anim_name)
    IN  IF frames = <<>>
        THEN [s EXCEPT !.anim_i = 0]
        ELSE LET s1 == [s EXCEPT !.current_anim = anim_name,
                                 !.current_frames = frames,
                                 !.current_loop = loop,
                                 !.anim_i = 0]
                 s2 == set_pixmap(s1, frames[1])
                 ms == anim_speeds(anim_name)
             IN  IF s2.error # ""
                 THEN s2
                 ELSE [s2 EXCEPT !.frame_ms = ms, !.anim_timer = StartedTimer(ms)]

\* play without the check that the animation has frames
play_noGuard(s, anim_name, loop) ==
    LET frames == AnimGet(s.anims, anim_name)
        s1 == [s EXCEPT !.current_anim = anim_name,
                        !.current_frames = frames,
                        !.current_loop = loop,
                        !.anim_i = 0]
    IN  IF frames = <<>>
        THEN s1
        ELSE LET s2 == set_pixmap(s1, frames[1])
                 ms == anim_speeds(anim_name)
             IN  IF s2.error # ""
                 THEN s2
                 ELSE [s2 EXCEPT !.frame_ms = ms, !.anim_timer = StartedTimer(ms)]

\* play returning early when the animation is already the current one
play_keepsCurrent(s, anim_name, loop) ==
    LET frames == AnimGet(s.anims, anim_name)
    IN  IF frames = <<>> \/ (s.mode = "engine" /\ s.current_anim = anim_name)
        THEN s
        ELSE LET s1 == [s EXCEPT !.current_anim = anim_name,
                                 !.current_frames = frames,
                                 !.current_loop = loop,
                                 !.anim_i = 0]
                 s2 == set_pixmap(s1, frames[1])
                 ms == anim_speeds(anim_name)
             IN  IF s2.error # ""
                 THEN s2
                 ELSE [s2 EXCEPT !.frame_ms = ms, !.anim_timer = StartedTimer(ms)]

\* play leaving the frame interval and the frame timer as they were
play_keepsPeriod(s, anim_name, loop) ==
    LET frames == AnimGet(s.anims, anim_name)
    IN  IF frames = <<>>
        THEN s
        ELSE LET s1 == [s EXCEPT !.current_anim = anim_name,
                                 !.current_frames = frames,
                                 !.current_loop = loop,
                                 !.anim_i = 0]
             IN  set_pixmap(s1, frames[1])

\* play(anim_name, loop)
play(s, anim_name, loop) ==
    LET frames == AnimGet(s.anims, anim_name)
    IN  IF frames = <<>>
        THEN s
        ELSE LET s1 == [s EXCEPT !.current_anim = anim_name,
                                 !.current_frames = frames,
                                 !.current_loop = loop,
                                 !.anim_i = 0]
                 s2 == set_pixmap(s1, frames[1])
                 ms == anim_speeds(anim_name)
             IN  IF s2.error # ""
                 THEN s2
                 ELSE [s2 EXCEPT !.frame_ms = ms, !.anim_timer = StartedTimer(ms)]

\* tick_anim wrapping to frame 0 whatever the loop mode
tick_anim_alwaysWraps(s, d) ==
    IF s.current_frames = <<>>
    THEN s
    ELSE LET s1 == [s EXCEPT !.anim_i = s.anim_i + 1]
         IN  IF s1.anim_i >= Len(s1.current_frames)
             THEN LET s2 == [s1 EXCEPT !.anim_i = 0]
                  IN  set_pixmap(s2, s2.current_frames[s2.anim_i + 1])
             ELSE set_pixmap(s1, s1.current_frames[s1.anim_i + 1])

\* tick_anim; d is the delay schedule_next_action draws
tick_anim(s, d) ==
    IF s.current_frames = <<>>
    THEN s
    ELSE LET s1 == [s EXCEPT !.anim_i = s.anim_i + 1]
         IN  IF s1.anim_i >= Len(s1.current_frames)
             THEN IF s1.current_loop
                  THEN LET s2 == [s1 EXCEPT !.anim_i = 0]
                       IN  set_pixmap(s2, s2.current_frames[s2.anim_i + 1])
                  ELSE LET s2 == play(s1, "idle", TRUE)
                       IN  IF s2.error # "" THEN s2 ELSE schedule_next_action(s2, d)
             ELSE set_pixmap(s1, s1.current_frames[s1.anim_i + 1])

\* the choice without the check for frames
Choices_withEmpty(a) == {n \in DOMAIN a : n # "idle"}

\* the animations do_random_action chooses among
Choices(a) == {n \in DOMAIN a : n # "idle" /\ a[n] # <<>>}

\* do_random_action re-arming the action timer as soon as it has started an
\* animation
do_random_action_rearms(s, pick, d) ==
    IF Choices(s.anims) = {}
    THEN schedule_next_action(s, d)
    ELSE LET s1 == play(s, pick, FALSE)
         IN  IF s1.error # "" THEN s1 ELSE schedule_next_action(s1, d)

\* do_random_action playing its choice in loop mode
do_random_action_loops(s, pick, d) ==
    IF Choices(s.anims) = {}
    THEN schedule_next_action(s, d)
    ELSE play(s, pick, TRUE)

\* do_random_action; pick is what random.choice returns, d the delay drawn
do_random_action(s, pick, d) ==
    IF Choices(s.anims) = {}
    THEN schedule_next_action(s, d)
    ELSE play(s, pick, FALSE)

\* what random.choice can return
Picks(a) == IF Choices(a) = {} THEN {""} ELSE Choices(a)

\* say(text, ms)
say(s, text, ms) ==
    [s EXCEPT !.bubble_text = text, !.bubble_visible = TRUE,
              !.bubble_timer = StartedTimer(ms)]

\* QPoint arithmetic
PointSub(p, q) == <<p[1] - q[1], p[2] - q[2]>>

\* the pointer is over the window
InsideWindow(gp, origin) ==
    LET o == PointSub(gp, origin)
    IN  o[1] >= 0 /\ o[1] < WinW /\ o[2] >= 0 /\ o[2] < WinH

\* mousePressEvent
mousePressEvent(s, button, gp) ==
    LET s1 == [s EXCEPT !.buttons = s.buttons \cup {button}]
    IN  IF button = LeftButton
        THEN [s1 EXCEPT !.drag_offset = PointSub(gp, s.pos)]
        ELSE s1

\* mouseMoveEvent putting the window corner under the pointer
mouseMoveEvent_noOffset(s, gp) ==
    IF s.drag_offset # None /\ LeftButton \in s.buttons
    THEN [s EXCEPT !.pos = gp]
    ELSE s

\* mouseMoveEvent; event.buttons() is the set of buttons held
mouseMoveEvent(s, gp) ==
    IF s.drag_offset # None /\ LeftButton \in s.buttons
    THEN [s EXCEPT !.pos = PointSub(gp, s.drag_offset)]
    ELSE s

\* mouseReleaseEvent ending the drag on the primary button only
mouseReleaseEvent_leftOnly(s, button) ==
    [s EXCEPT !.buttons = s.buttons \ {button},
              !.drag_offset = IF button = LeftButton THEN None ELSE s.drag_offset]

\* mouseReleaseEvent
mouseReleaseEvent(s, button) ==
    [s EXCEPT !.buttons = s.buttons \ {button}, !.drag_offset = None]

(* ---------------------------- construction ----------------------------- *)

\* the mappings list_anim_folders / load_frames can produce
AnimConfigs ==
    UNION {{[n \in F |-> FramesOf(n, k[n])] : k \in [F -> 0..MaxFrames]}
            : F \in SUBSET AnimNames}

\* the object after lines 22-47 and the loading of the frames
Fresh(a) ==
    [mode |-> "label", anims |-> a, current_anim |-> "", current_frames |-> <<>>,
     current_loop |-> FALSE, anim_i |-> 0, frame_ms |-> 0,
     label_pixmap |-> NoPixmap, anim_timer |-> StoppedTimer,
     behavior_timer |-> StoppedTimer, bubble_text |-> "",
     bubble_visible |-> FALSE, bubble_timer |-> StoppedTimer, pos |-> HomePos,
     drag_offset |-> None, buttons |-> {}, error |-> ""]

\* Buddy.__init__ followed by the module-level start-up
Construct(a, sprite, d) ==
    LET s0 == Fresh(a)
    IN  IF AnimGet(a, "idle") = <<>>
        THEN LET s1 == set_sprite(s0, sprite)
             IN  IF s1.error # "" THEN [s1 EXCEPT !.mode = "crashed"] ELSE s1
        ELSE LET s1 == [s0 EXCEPT !.mode = "engine",
                                  !.current_anim = "idle",
                                  !.current_frames = a["idle"],
                                  !.current_loop = TRUE,
                                  !.anim_i = 0,
                                  !.frame_ms = anim_speeds("idle")]
                 s2 == set_pixmap(s1, s1.current_frames[1])
                 s3 == [s2 EXCEPT !.anim_timer = StartedTimer(s2.frame_ms)]
             IN  schedule_next_action(s3, d)

Ev(op, name, loop, gp, button) ==
    [op |-> op, name |-> name, loop |-> loop, gp |-> gp, button |-> button]

NoPlay == [name |-> "", loop |-> FALSE, ticks |-> 0]

\* the play request a handler made, when it took effect
PlayedBy(s, name, loop) ==
    IF AnimGet(s.anims, name) # <<>> /\ s.error = ""
    THEN [name |-> name, loop |-> loop, ticks |-> 0]
    ELSE NoPlay

\* one more tick after the play request
PlayedTick ==
    IF played.name # "" /\ played.ticks < Len(anims[played.name])
    THEN [played EXCEPT !.ticks = played.ticks + 1]
    ELSE NoPlay

\* the state a handler starts from: no exception pending
Entry == [State EXCEPT !.error = ""]

\* the window exists and the event loop runs
Running == mode \in {"engine", "label"}

\* no say request yet
NoSay == [said |-> FALSE, text |-> "", at |-> 0, ms |-> 0, hides |-> 0,
          over |-> FALSE, prev_due |-> 0]

\* no file operation
NoJob == [kind |-> "none"]

\* the clock at start-up and no file operation
AuxInit ==
    /\ now = 0
    /\ bubble_due = 0
    /\ bubble_log = NoSay
    /\ job = NoJob
    /\ result = NoJob

\* the asset folder the pointer specification runs on
PointerConfig == [n \in {"idle", "wave"} |-> FramesOf(n, MaxFrames)]

\* the program after start-up, for the asset folders in configs
InitWith(configs) ==
    \E a \in configs, sprite \in SpriteStates, d \in DelaySamples :
        LET s == Construct(a, sprite, d)
        IN  /\ mode = s.mode
            /\ anims = s.anims
            /\ current_anim = s.current_anim
            /\ current_frames = s.current_frames
            /\ current_loop = s.current_loop
            /\ anim_i = s.anim_i
            /\ frame_ms = s.frame_ms
            /\ label_pixmap = s.label_pixmap
            /\ anim_timer = s.anim_timer
            /\ behavior_timer = s.behavior_timer
            /\ bubble_text = s.bubble_text
            /\ bubble_visible = s.bubble_visible
            /\ bubble_timer = s.bubble_timer
            /\ pos = s.pos
            /\ drag_offset = s.drag_offset
            /\ buttons = s.buttons
            /\ error = s.error
            /\ event = Ev("init", "", FALSE, <<0, 0>>, "")
            /\ before = s
            /\ played = NoPlay
            /\ AuxInit

(* ------------------------------ actions -------------------------------- *)

\* anim_timer.timeout -> tick_anim
AnimTimeout ==
    /\ Running
    /\ anim_timer.active
    /\ \E d \in DelaySamples : Becomes(tick_anim(Entry, d))
    /\ event' = Ev("tick", "", FALSE, <<0, 0>>, "")
    /\ before' = State
    /\ UNCHANGED aux
    /\ played' = PlayedTick

\* behavior_timer.timeout -> do_random_action; the timer is single-shot
BehaviorTimeout ==
    /\ Running
    /\ behavior_timer.active
    /\ \E pick \in Picks(anims), d \in DelaySamples :
          LET s0 == [Entry EXCEPT !.behavior_timer.active = FALSE]
              s1 == do_random_action(s0, pick, d)
          IN  /\ Becomes(s1)
              /\ event' = Ev("behavior_timeout", pick, FALSE, <<0, 0>>, "")
              /\ played' = PlayedBy(s1, pick, FALSE)
    /\ before' = State
    /\ UNCHANGED aux

\* bubble_timer.timeout -> bubble.hide; the timer is single-shot
BubbleTimeout ==
    /\ Running
    /\ bubble_timer.active
    /\ Becomes([Entry EXCEPT !.bubble_timer.active = FALSE, !.bubble_visible = FALSE])
    /\ event' = Ev("bubble_timeout", "", FALSE, <<0, 0>>, "")
    /\ before' = State
    /\ UNCHANGED aux
    /\ played' = NoPlay

\* context menu, "Say hi"
MenuSayHi ==
    /\ Running
    /\ Becomes(say(Entry, "hi :)", SayMs))
    /\ event' = Ev("menu_say", "", FALSE, <<0, 0>>, "")
    /\ before' = State
    /\ UNCHANGED aux
    /\ played' = NoPlay

\* context menu, "Do random action now"
MenuRandom ==
    /\ Running
    /\ \E pick \in Picks(anims), d \in DelaySamples :
          LET s1 == do_random_action(Entry, pick, d)
          IN  /\ Becomes(s1)
              /\ event' = Ev("menu_random", pick, FALSE, <<0, 0>>, "")
              /\ played' = PlayedBy(s1, pick, FALSE)
    /\ before' = State
    /\ UNCHANGED aux

\* context menu, "Return to idle"
MenuIdle ==
    /\ Running
    /\ LET s1 == play(Entry, "idle", TRUE)
       IN  /\ Becomes(s1)
           /\ played' = PlayedBy(s1, "idle", TRUE)
    /\ event' = Ev("menu_idle", "idle", TRUE, <<0, 0>>, "")
    /\ before' = State
    /\ UNCHANGED aux

\* a host calls play(name, loop)
HostPlay ==
    /\ Running
    /\ \E name \in PlayNames, loop \in BOOLEAN :
          LET s1 == play(Entry, name, loop)
          IN  /\ Becomes(s1)
              /\ event' = Ev("play", name, loop, <<0, 0>>, "")
              /\ played' = PlayedBy(s1, name, loop)
    /\ before' = State
    /\ UNCHANGED aux

\* a button goes down over the window
MousePress ==
    /\ Running
    /\ \E button \in Buttons \ buttons, gp \in PointerPositions :
          /\ InsideWindow(gp, pos)
          /\ Becomes(mousePressEvent(Entry, button, gp))
          /\ event' = Ev("mousePress", "", FALSE, gp, button)
    /\ before' = State
    /\ UNCHANGED aux
    /\ played' = NoPlay

\* the pointer moves while a button is held (no mouse tracking)
MouseMove ==
    /\ Running
    /\ buttons # {}
    /\ \E gp \in PointerPositions :
          /\ Becomes(mouseMoveEvent(Entry, gp))
          /\ event' = Ev("mouseMove", "", FALSE, gp, "")
    /\ before' = State
    /\ UNCHANGED aux
    /\ played' = NoPlay

\* a held button goes up
MouseRelease ==
    /\ Running
    /\ \E button \in buttons :
          /\ Becomes(mouseReleaseEvent(Entry, button))
          /\ event' = Ev("mouseRelease", "", FALSE, <<0, 0>>, button)
    /\ before' = State
    /\ UNCHANGED aux
    /\ played' = NoPlay

Init == InitWith(AnimConfigs)

InitPointer == InitWith({PointerConfig})

\* the timers and the context menu
Next ==
    \/ AnimTimeout
    \/ BehaviorTimeout
    \/ BubbleTimeout
    \/ MenuSayHi
    \/ MenuRandom
    \/ MenuIdle

\* the engine and the bubble, over every asset folder
Spec == Init /\ [][Next]_vars

NextHost == Next \/ HostPlay

\* the same with a host that issues play requests
SpecHost == Init /\ [][NextHost]_vars

NextPointer ==
    \/ Next
    \/ MousePress
    \/ MouseMove
    \/ MouseRelease

\* every handler the program wires up, over one asset folder
SpecPointer == InitPointer /\ [][NextPointer]_vars

\* asset folders for the wired handlers: two animations of full length; a
\* one-frame idle with two eligible animations of different lengths; an idle
\* whose only companion has no frames
WiredConfigs ==
    {PointerConfig,
     [n \in {"idle", "wave", "dance"} |->
         FramesOf(n, IF n = "wave" THEN MaxFrames - 1 ELSE 1)],
     [n \in {"idle", "wave"} |->
         FramesOf(n, IF n = "idle" THEN MaxFrames - 1 ELSE 0)]}

InitWired == InitWith(WiredConfigs)

\* every handler the program wires up, over these asset folders
SpecWired == InitWired /\ [][NextPointer]_vars

(* --------------------------- the bubble in time ------------------------ *)

\* the clock stops here
MaxTime == 4000
\* texts and durations of the say requests
SayTexts == {"hi", "bye"}
SayDurations == {1000, SayMs}
\* how far the clock moves between two events
TimeSteps == {200, 1000}

\* say at time t keeping the deadline of a timer that is already running
say_at_keepsDeadline(s, due, text, ms, t) ==
    [state |-> say(s, text, ms),
     due |-> IF s.bubble_timer.active THEN due ELSE t + ms]

\* say(text, ms) at time t: bubble_timer.start(ms) restarts the single-shot
\* timer, which then expires ms after t
say_at(s, due, text, ms, t) ==
    [state |-> say(s, text, ms), due |-> t + ms]

\* a host calls say(text, ms)
SayAt ==
    /\ Running
    /\ \E text \in SayTexts, ms \in SayDurations :
          LET r == say_at(Entry, bubble_due, text, ms, now)
          IN  /\ Becomes(r.state)
              /\ bubble_due' = r.due
              /\ bubble_log' = [said |-> TRUE, text |-> text, at |-> now, ms |-> ms,
                                hides |-> 0, over |-> bubble_visible,
                                prev_due |-> IF bubble_timer.active THEN bubble_due ELSE 0]
              /\ event' = Ev("say", text, FALSE, <<0, 0>>, "")
    /\ before' = State
    /\ played' = NoPlay
    /\ UNCHANGED <<now, job, result>>

\* bubble_timer.timeout at its deadline -> bubble.hide
BubbleExpires ==
    /\ Running
    /\ bubble_timer.active
    /\ now = bubble_due
    /\ Becomes([Entry EXCEPT !.bubble_timer.active = FALSE, !.bubble_visible = FALSE])
    /\ bubble_log' = [bubble_log EXCEPT !.hides = bubble_log.hides + 1]
    /\ event' = Ev("bubble_timeout", "", FALSE, <<0, 0>>, "")
    /\ before' = State
    /\ played' = NoPlay
    /\ UNCHANGED <<now, bubble_due, job, result>>

\* time passes; a running timer expires before the clock moves past its deadline
TimePasses ==
    /\ Running
    /\ \E dt \in TimeSteps \cup (IF bubble_timer.active /\ bubble_due > now
                                 THEN {bubble_due - now} ELSE {}) :
          /\ now + dt <= MaxTime
          /\ bubble_timer.active => now + dt <= bubble_due
          /\ now' = now + dt
    /\ UNCHANGED <<progvars, event, before, played, bubble_due, bubble_log, job, result>>

NextBubble ==
    \/ SayAt
    \/ BubbleExpires
    \/ TimePasses

\* the speech bubble with a clock, over one asset folder
SpecBubble == InitPointer /\ [][NextBubble]_vars

(* ------------------------- file operations ----------------------------- *)

\* the companion is not running while a file operation is studied
Offline ==
    LET s == Fresh(<<>>)
    IN  /\ mode = s.mode
        /\ anims = s.anims
        /\ current_anim = s.current_anim
        /\ current_frames = s.current_frames
        /\ current_loop = s.current_loop
        /\ anim_i = s.anim_i
        /\ frame_ms = s.frame_ms
        /\ label_pixmap = s.label_pixmap
        /\ anim_timer = s.anim_timer
        /\ behavior_timer = s.behavior_timer
        /\ bubble_text = s.bubble_text
        /\ bubble_visible = s.bubble_visible
        /\ bubble_timer = s.bubble_timer
        /\ pos = s.pos
        /\ drag_offset = s.drag_offset
        /\ buttons = s.buttons
        /\ error = s.error
        /\ event = Ev("init", "", FALSE, <<0, 0>>, "")
        /\ before = s
        /\ played = NoPlay
        /\ now = 0
        /\ bubble_due = 0
        /\ bubble_log = NoSay

\* what a file operation leaves alone
companion == <<progvars, event, before, played, now, bubble_due, bubble_log>>

(* ----------------------------- load_frames ----------------------------- *)

\* most lines an order.txt has
MaxLines == 2
\* the characters of lines and file names, in code-point order
Chars == <<" ", "#", "a", "b">>
\* lines an order.txt may hold
ManifestLines ==
    {<<>>, <<" ">>, <<"#", "a">>, <<" ", "#">>, <<"a">>, <<"b">>,
     <<" ", "a">>, <<"b", " ">>}
\* names a file of the folder may have
FileNames == {<<"a">>, <<"b">>, <<"#", "a">>}
\* what is on disk under a name: nothing, a *.png that decodes, a *.png that
\* does not, or a decodable image that *.png does not match
FileKinds == {"absent", "png_ok", "png_bad", "other_ok"}

\* str.strip() on the left
RECURSIVE LStrip(_)
LStrip(l) == IF l # <<>> /\ Head(l) = " " THEN LStrip(Tail(l)) ELSE l

\* str.strip() on the right
RECURSIVE RStrip(_)
RStrip(l) ==
    IF l # <<>> /\ l[Len(l)] = " " THEN RStrip(SubSeq(l, 1, Len(l) - 1)) ELSE l

\* line.strip()
Strip(l) == RStrip(LStrip(l))

\* the code point order of the characters
Rank(c) == CHOOSE i \in DOMAIN Chars : Chars[i] = c

\* u sorts before v
RECURSIVE LexLess(_, _)
LexLess(u, v) ==
    IF u = <<>> THEN v # <<>>
    ELSE IF v = <<>> THEN FALSE
    ELSE IF Head(u) = Head(v) THEN LexLess(Tail(u), Tail(v))
    ELSE Rank(Head(u)) < Rank(Head(v))

\* sorted(...) of a set of names
RECURSIVE Sorted(_)
Sorted(S) ==
    IF S = {} THEN <<>>
    ELSE LET m == CHOOSE x \in S : \A y \in S \ {x} : LexLess(x, y)
         IN  <<m>> \o Sorted(S \ {m})

\* the manifest loop of load_frames, lines 159-163
RECURSIVE ManifestPaths(_)
ManifestPaths(lines) ==
    IF lines = <<>> THEN <<>>
    ELSE LET name == Strip(Head(lines))
         IN  IF name = <<>> \/ Head(name) = "#"
             THEN ManifestPaths(Tail(lines))
             ELSE <<name>> \o ManifestPaths(Tail(lines))

\* sorted(folder.glob("*.png"))
GlobPng(folder) == Sorted({n \in DOMAIN folder : folder[n] \in {"png_ok", "png_bad"}})

\* p.exists() and not QPixmap(str(p)).isNull()
Decodes(folder, p) == p \in DOMAIN folder /\ folder[p] \in {"png_ok", "other_ok"}

\* the decode loop of load_frames, lines 167-175
RECURSIVE DecodeAll(_, _)
DecodeAll(folder, paths) ==
    IF paths = <<>> THEN <<>>
    ELSE IF Decodes(folder, Head(paths))
    THEN <<Head(paths)>> \o DecodeAll(folder, Tail(paths))
    ELSE DecodeAll(folder, Tail(paths))

\* the decode loop giving up at the first entry that does not load
RECURSIVE DecodeAll_stopsAtBad(_, _)
DecodeAll_stopsAtBad(folder, paths) ==
    IF paths = <<>> THEN <<>>
    ELSE IF Decodes(folder, Head(paths))
    THEN <<Head(paths)>> \o DecodeAll_stopsAtBad(folder, Tail(paths))
    ELSE <<>>

\* load_frames giving up at the first entry that does not load
load_frames_stopsAtBad(j) ==
    LET paths == IF j.manifest THEN ManifestPaths(j.lines) ELSE GlobPng(j.folder)
    IN  DecodeAll_stopsAtBad(j.folder, paths)

\* load_frames(anim_name) on a folder with or without order.txt
load_frames(j) ==
    LET paths == IF j.manifest THEN ManifestPaths(j.lines) ELSE GlobPng(j.folder)
    IN  DecodeAll(j.folder, paths)

\* sequences of at most n lines
LinesUpTo(n) == UNION {[1..k -> ManifestLines] : k \in 0..n}

\* the folders load_frames is run on
LoadJobs ==
    {[kind |-> "load", manifest |-> TRUE, lines |-> l, folder |-> f] :
        l \in LinesUpTo(MaxLines), f \in [FileNames -> FileKinds]}
    \cup
    {[kind |-> "load", manifest |-> FALSE, lines |-> <<>>, folder |-> f] :
        f \in [FileNames -> FileKinds]}

InitLoad ==
    /\ Offline
    /\ job \in LoadJobs
    /\ result = NoJob

\* the constructor loads one folder
LoadFrames ==
    /\ job.kind = "load"
    /\ result = NoJob
    /\ result' = [kind |-> "frames", frames |-> load_frames(job)]
    /\ UNCHANGED <<companion, job>>

\* load_frames over the folders
SpecLoad == InitLoad /\ [][LoadFrames]_vars

(* ---------------------------- blue_to_alpha ---------------------------- *)

THRESH == 35
SOFT == 40

\* the square of dist(rgb, key); dist is its square root
DistSq(rgb, key) ==
    (rgb[1] - key[1]) * (rgb[1] - key[1]) +
    (rgb[2] - key[2]) * (rgb[2] - key[2]) +
    (rgb[3] - key[3]) * (rgb[3] - key[3])

\* int(255 * ((d - THRESH) / SOFT)) rounding to the nearest integer instead
FeatherAlpha_rounds(dd) ==
    CHOOSE n \in 0..255 :
        /\ (2 * SOFT * n - SOFT + 2 * 255 * THRESH) * (2 * SOFT * n - SOFT + 2 * 255 * THRESH)
               <= 4 * 255 * 255 * dd
        /\ (2 * SOFT * n + SOFT + 2 * 255 * THRESH) * (2 * SOFT * n + SOFT + 2 * 255 * THRESH)
               > 4 * 255 * 255 * dd

\* int(255 * ((d - THRESH) / SOFT)) for d = sqrt(dd), THRESH < d < THRESH + SOFT:
\* the largest n with SOFT * n + 255 * THRESH <= 255 * d
FeatherAlpha(dd) ==
    CHOOSE n \in 0..255 :
        /\ (SOFT * n + 255 * THRESH) * (SOFT * n + 255 * THRESH) <= 255 * 255 * dd
        /\ (SOFT * (n + 1) + 255 * THRESH) * (SOFT * (n + 1) + 255 * THRESH) > 255 * 255 * dd

\* min(a, b)
Min(a, b) == IF a <= b THEN a ELSE b

\* the loop body storing the feathered alpha without the min
KeyPixel_noMin(p, key) ==
    LET dd == DistSq(<<p[1], p[2], p[3]>>, key)
    IN  IF dd <= THRESH * THRESH
        THEN <<p[1], p[2], p[3], 0>>
        ELSE IF dd < (THRESH + SOFT) * (THRESH + SOFT)
        THEN <<p[1], p[2], p[3], FeatherAlpha(dd)>>
        ELSE p

\* the loop body of blue_to_alpha on the pixel p = (r, g, b, a), lines 61-71
KeyPixel(p, key) ==
    LET dd == DistSq(<<p[1], p[2], p[3]>>, key)
    IN  IF dd <= THRESH * THRESH
        THEN <<p[1], p[2], p[3], 0>>
        ELSE IF dd < (THRESH + SOFT) * (THRESH + SOFT)
        THEN <<p[1], p[2], p[3], Min(p[4], FeatherAlpha(dd))>>
        ELSE p

\* blue_to_alpha(img, key_rgb); an image is its size and its pixels by (x, y)
blue_to_alpha(img, key) ==
    [img EXCEPT !.px = [c \in DOMAIN img.px |-> KeyPixel(img.px[c], key)]]

\* channel values of the pixels the extractor is run on
RedSamples == {0, 21, 35, 36, 39, 74, 75, 255}
GreenSamples == {0, 28}
BlueSamples == {0, 255}
AlphaSamples == {0, 100, 255}
KeySamples == {<<0, 0, 0>>, <<0, 0, 255>>, <<21, 28, 0>>}
PixelSamples ==
    {<<r, g, b, a>> : r \in RedSamples, g \in GreenSamples, b \in BlueSamples,
                      a \in AlphaSamples}

\* the coordinates of a w x h image
Coords(w, h) == {<<x, y>> : x \in 0..(w - 1), y \in 0..(h - 1)}

\* the images blue_to_alpha is run on: one row of one or two pixels
KeyImages ==
    UNION {{[w |-> w, h |-> 1, px |-> f] : f \in [Coords(w, 1) -> PixelSamples]}
            : w \in 1..2}

InitKey ==
    /\ Offline
    /\ job \in {[kind |-> "key", img |-> i, key |-> k] : i \in KeyImages, k \in KeySamples}
    /\ result = NoJob

\* out = blue_to_alpha(img, key)
ApplyKey ==
    /\ job.kind = "key"
    /\ result = NoJob
    /\ result' = [kind |-> "keyed", img |-> blue_to_alpha(job.img, job.key)]
    /\ UNCHANGED <<companion, job>>

\* blue_to_alpha over the sample images
SpecKey == InitKey /\ [][ApplyKey]_vars

(* ------------------------------- auto_key ------------------------------ *)

\* largest width and height of the images auto_key is run on
MaxDim == 3
\* the colours of those images
Palette == {<<0, 0, 255>>, <<255, 255, 255>>}

\* raw_points, lines 31-36
RawPoints(w, h) ==
    << <<0, 0>>, <<1, 0>>, <<0, 1>>,
       <<w - 1, 0>>, <<w - 2, 0>>, <<w - 1, 1>>,
       <<0, h - 1>>, <<1, h - 1>>, <<0, h - 2>>,
       <<w - 1, h - 1>>, <<w - 2, h - 1>>, <<w - 1, h - 2>> >>

\* max(0, min(hi, v))
Clamp(v, hi) == IF v < 0 THEN 0 ELSE IF v > hi THEN hi ELSE v

\* the clamped sample points, lines 38-42
Samples(w, h) ==
    [i \in 1..12 |-> <<Clamp(RawPoints(w, h)[i][1], w - 1),
                       Clamp(RawPoints(w, h)[i][2], h - 1)>>]

\* colors, line 44
SampleColors(img) == [i \in 1..12 |-> img.px[Samples(img.w, img.h)[i]]]

\* colors.count(c)
Count(colors, c) == Cardinality({i \in DOMAIN colors : colors[i] = c})

\* max(set(colors), key=colors.count): a colour with the highest count; among
\* several, the one the iteration over the set meets first, which the hash
\* table decides, so any of them
auto_key(img) ==
    LET colors == SampleColors(img)
        seen == {colors[i] : i \in DOMAIN colors}
    IN  {c \in seen : \A e \in seen : Count(colors, c) >= Count(colors, e)}

\* the images auto_key is run on
AutoImages ==
    UNION {{[w |-> w, h |-> h, px |-> f] : f \in [Coords(w, h) -> Palette]}
            : w \in 1..MaxDim, h \in 1..MaxDim}

InitAuto ==
    /\ Offline
    /\ job \in {[kind |-> "auto", img |-> i] : i \in AutoImages}
    /\ result = NoJob

\* key = auto_key(img)
AutoKey ==
    /\ job.kind = "auto"
    /\ result = NoJob
    /\ \E k \in auto_key(job.img) : result' = [kind |-> "autokey", key |-> k]
    /\ UNCHANGED <<companion, job>>

\* auto_key over the sample images
SpecAuto == InitAuto /\ [][AutoKey]_vars

(* ---------------------------- process_folder --------------------------- *)

\* paths of PNG files relative to the input folder
BatchPaths == {"a.png", "sub/b.png", "sub/c.png"}

\* the orders in which in_dir.rglob("*.png") can list the files in S
Listings(S) ==
    {q \in [1..Cardinality(S) -> S] : \A i, k \in 1..Cardinality(S) : i # k => q[i] # q[k]}

\* the input folders of a batch run: whether in_dir exists, the files in the
\* order rglob lists them, and the files that Pillow can decode
BatchJobs ==
    {[kind |-> "batch", in_exists |-> FALSE, files |-> <<>>, good |-> {}]}
    \cup
    UNION {{[kind |-> "batch", in_exists |-> TRUE, files |-> q, good |-> g]
               : q \in Listings(S), g \in SUBSET S}
            : S \in SUBSET BatchPaths}

\* process_folder up to the loop, lines 81-88
batch_start(j) ==
    IF ~j.in_exists
    THEN [kind |-> "batch", status |-> "raised", error |-> "FileNotFoundError",
          out_dir |-> FALSE, i |-> 1, written |-> {}]
    ELSE [kind |-> "batch", status |-> "running", error |-> "",
          out_dir |-> TRUE, i |-> 1, written |-> {}]

\* one iteration of the loop, lines 90-104: Image.open / auto_key / blue_to_alpha
\* raise on a file that does not decode, and nothing catches it
batch_file(j, r) ==
    IF r.i > Len(j.files)
    THEN [r EXCEPT !.status = "done"]
    ELSE IF j.files[r.i] \in j.good
    THEN [r EXCEPT !.written = r.written \cup {j.files[r.i]}, !.i = r.i + 1]
    ELSE [r EXCEPT !.status = "raised", !.error = "decode"]

InitBatch ==
    /\ Offline
    /\ job \in BatchJobs
    /\ result = NoJob

\* process_folder is called
BatchStart ==
    /\ job.kind = "batch"
    /\ result = NoJob
    /\ result' = batch_start(job)
    /\ UNCHANGED <<companion, job>>

\* the loop handles the next file, or ends
BatchFile ==
    /\ job.kind = "batch"
    /\ result # NoJob
    /\ result.status = "running"
    /\ result' = batch_file(job, result)
    /\ UNCHANGED <<companion, job>>

NextBatch ==
    \/ BatchStart
    \/ BatchFile

\* a batch run over the input folders
SpecBatch == InitBatch /\ [][NextBatch]_vars

(* ------------------------------- claims -------------------------------- *)

\* the engine part of a program state: animation, frame, loop mode, interval,
\* displayed frame and both timers
EngineOf(s) ==
    <<s.current_anim, s.current_frames, s.anim_i, s.current_loop, s.frame_ms,
      s.label_pixmap, s.anim_timer, s.behavior_timer>>

\* the frames a name resolves to, <<>> when it is absent
Loaded(name) == IF name \in DOMAIN anims THEN anims[name] ELSE <<>>

\* the handler that ran last was a top-level play request
PlayRequested == event.op \in {"play", "menu_idle"}

\* C1: a play request naming an absent or empty animation leaves the current
\* animation, frame list, frame index, loop mode, interval, displayed frame
\* and both timers exactly as they were.
C1_PlayUnavailableNoOp ==
    (PlayRequested /\ Len(Loaded(event.name)) = 0)
        => EngineOf(State) = EngineOf(before)

C1_Witness ==
    /\ event.op = "play"
    /\ event.name \in DOMAIN anims
    /\ Len(Loaded(event.name)) = 0
    /\ mode = "engine"
    /\ current_anim = "wave"
    /\ anim_i = 1
    /\ ~behavior_timer.active

\* C2: after play(A, loop) and k ticks with nothing in between the frame
\* index is k for k < len(A); the len(A)-th tick wraps to frame 0 of A when
\* loop is true and returns to idle when loop is false.
C2_PlayThenTicks ==
    (played.name # "" /\ mode = "engine") =>
        LET A == Loaded(played.name)
            k == played.ticks
        IN  IF k < Len(A)
            THEN /\ current_anim = played.name
                 /\ current_loop = played.loop
                 /\ anim_i = k
                 /\ label_pixmap = <<played.name, k + 1>>
            ELSE IF played.loop
            THEN /\ current_anim = played.name
                 /\ current_loop
                 /\ anim_i = 0
                 /\ label_pixmap = <<played.name, 1>>
            ELSE /\ current_anim = "idle"
                 /\ current_loop
                 /\ anim_i = 0
                 /\ label_pixmap = <<"idle", 1>>

C2_Witness ==
    /\ mode = "engine"
    /\ played.name = "wave"
    /\ ~played.loop
    /\ Len(Loaded("wave")) = MaxFrames
    /\ played.ticks = MaxFrames
    /\ current_anim = "idle"

\* the tick started from the last frame of the animation
Exhausting(b) == b.anim_i + 1 >= Len(b.current_frames)

\* C3: the tick that exhausts a non-looping animation switches to idle at
\* frame 0, looping, with the idle interval, and arms the action timer with a
\* delay in [8000, 25000]; a tick that leaves the non-looping animation
\* playing leaves the action timer as it was.
C3_CompletionRearms ==
    (event.op = "tick" /\ ~before.current_loop) =>
        IF Exhausting(before)
        THEN /\ current_anim = "idle"
             /\ anim_i = 0
             /\ current_loop
             /\ frame_ms = 300
             /\ anim_timer = [active |-> TRUE, interval |-> 300]
             /\ behavior_timer.active
             /\ behavior_timer.interval >= 8000
             /\ behavior_timer.interval <= 25000
        ELSE /\ current_anim = before.current_anim
             /\ anim_i = before.anim_i + 1
             /\ behavior_timer = before.behavior_timer

C3_Witness ==
    /\ event.op = "tick"
    /\ before.current_anim = "wave"
    /\ ~before.current_loop
    /\ before.anim_i = 1
    /\ Exhausting(before)
    /\ ~before.behavior_timer.active
    /\ current_anim = "idle"
    /\ behavior_timer.active

\* C4: in a launched engine the current animation has at least one frame and
\* the frame index is within it.
C4_CurrentNonEmpty ==
    mode = "engine" =>
        /\ Len(Loaded(current_anim)) >= 1
        /\ current_frames = Loaded(current_anim)
        /\ anim_i >= 0
        /\ anim_i < Len(current_frames)

C4_Witness ==
    /\ mode = "engine"
    /\ event.op = "play"
    /\ event.name = "dance"
    /\ "dance" \in DOMAIN anims
    /\ Len(Loaded("dance")) = 0
    /\ before.current_anim = "wave"
    /\ current_anim = "wave"
    /\ anim_i = Len(current_frames) - 1

\* C5: the action timer never fires while a non-idle animation is playing.
C5_NoFireDuringAction ==
    event.op = "behavior_timeout" => before.current_anim = "idle"

\* C6: whenever the current animation is idle the action timer is armed.
C6_IdleImpliesArmed ==
    (mode = "engine" /\ current_anim = "idle") => behavior_timer.active

\* the animations an autonomous action may play
Eligible == {n \in DOMAIN anims : n # "idle" /\ Len(anims[n]) >= 1}

\* C7: a fire of the action timer plays a loaded non-idle animation with at
\* least one frame, non-looping, from frame 0; when there is none it only
\* re-arms the action timer, and the current animation stays idle.
C7_FirePlaysEligible ==
    /\ event.op = "behavior_timeout" =>
          IF Eligible = {}
          THEN /\ current_anim = before.current_anim
               /\ current_frames = before.current_frames
               /\ anim_i = before.anim_i
               /\ current_loop = before.current_loop
               /\ frame_ms = before.frame_ms
               /\ label_pixmap = before.label_pixmap
               /\ anim_timer = before.anim_timer
               /\ behavior_timer.active
               /\ behavior_timer.interval >= 8000
               /\ behavior_timer.interval <= 25000
          ELSE /\ current_anim \in Eligible
               /\ current_frames = anims[current_anim]
               /\ ~current_loop
               /\ anim_i = 0
               /\ label_pixmap = <<current_anim, 1>>
    /\ (mode = "engine" /\ Eligible = {}) => current_anim = "idle"

C7_Witness ==
    /\ event.op = "behavior_timeout"
    /\ Cardinality(DOMAIN anims) = 3
    /\ Cardinality(Eligible) = 1
    /\ before.current_anim = "idle"
    /\ current_anim \in Eligible
    /\ ~behavior_timer.active

\* C8: "Return to idle" while already idle gives, whatever the frame index
\* was, idle at frame 0, looping, with the idle interval and the frame timer
\* restarted, and changes nothing else.
C8_ReturnToIdleResets ==
    (event.op = "menu_idle" /\ mode = "engine" /\ before.current_anim = "idle") =>
        State = [before EXCEPT !.anim_i = 0,
                               !.current_loop = TRUE,
                               !.label_pixmap = <<"idle", 1>>,
                               !.frame_ms = 300,
                               !.anim_timer = [active |-> TRUE, interval |-> 300],
                               !.error = ""]

C8_Witness ==
    /\ event.op = "menu_idle"
    /\ mode = "engine"
    /\ before.current_anim = "idle"
    /\ before.anim_i = 2
    /\ current_anim = "idle"
    /\ anim_i = 0

\* C9: the primary-button press captures pointer minus window origin, and
\* every pointer-move of the drag puts the window origin at pointer minus
\* that offset.
C9_DragKeepsGrabPoint ==
    /\ (event.op = "mousePress" /\ event.button = "Left") =>
          /\ pos = before.pos
          /\ drag_offset = <<event.gp[1] - pos[1], event.gp[2] - pos[2]>>
    /\ (event.op = "mouseMove" /\ before.drag_offset # <<>>) =>
          /\ drag_offset = before.drag_offset
          /\ pos = <<event.gp[1] - drag_offset[1], event.gp[2] - drag_offset[2]>>

C9_Witness ==
    /\ event.op = "mouseMove"
    /\ before.pos = <<100, 100>>
    /\ before.drag_offset = <<10, 10>>
    /\ event.gp = <<150, 140>>
    /\ pos = <<140, 130>>

\* C10: the window moves only in a pointer-move with a drag in progress; a
\* drag begins only with a primary-button press, ends with every button
\* release, and exists only while the primary button is held.
C10_MoveOnlyWhileDragging ==
    /\ pos # before.pos => (event.op = "mouseMove" /\ before.drag_offset # <<>>)
    /\ (drag_offset # <<>> /\ before.drag_offset = <<>>)
          => (event.op = "mousePress" /\ event.button = "Left")
    /\ event.op = "mouseRelease" => drag_offset = <<>>
    /\ drag_offset # <<>> => "Left" \in buttons

C10_Witness ==
    /\ event.op = "mouseRelease"
    /\ event.button = "Right"
    /\ before.drag_offset # <<>>
    /\ before.pos # <<100, 100>>
    /\ "Left" \in buttons
    /\ drag_offset = <<>>

\* C11: a say issued at T2 with duration d2 while the bubble of an earlier say
\* is visible replaces the text and moves the single deadline to T2 + d2: the
\* bubble stays visible until T2 + d2, is hidden exactly once, then, and the
\* earlier deadline never hides it.
C11_SayResetsDeadline ==
    bubble_log.said =>
        LET due == bubble_log.at + bubble_log.ms
        IN  /\ bubble_text = bubble_log.text
            /\ now < due => (bubble_visible /\ bubble_log.hides = 0)
            /\ now > due => (~bubble_visible /\ bubble_log.hides = 1)
            /\ bubble_visible => bubble_log.hides = 0
            /\ ~bubble_visible => bubble_log.hides = 1

C11_Witness ==
    /\ bubble_log.said
    /\ bubble_log.over
    /\ bubble_log.text = "bye"
    /\ bubble_log.at = 200
    /\ bubble_log.ms = 1000
    /\ bubble_log.prev_due = 1000
    /\ now = 1200
    /\ ~bubble_visible
    /\ bubble_log.hides = 1
    /\ bubble_text = "bye"

\* C12: when idle has no frames the companion never fails: construction
\* completes and no command raises.
C12_DegradedNeverRaises ==
    Len(Loaded("idle")) = 0 => (mode # "crashed" /\ error = "")

\* a line without its leading and trailing spaces
Trimmed(l) ==
    LET keep == {i \in 1..Len(l) : l[i] # " "}
    IN  IF keep = {} THEN <<>>
        ELSE SubSeq(l, CHOOSE i \in keep : \A k \in keep : i <= k,
                       CHOOSE i \in keep : \A k \in keep : i >= k)

\* the entry is on disk and decodes
Usable(p) == p \in DOMAIN job.folder /\ job.folder[p] \in {"png_ok", "other_ok"}

\* the *.png files of the folder in lexicographic order
PngInOrder ==
    LET S == {n \in DOMAIN job.folder : job.folder[n] \in {"png_ok", "png_bad"}}
    IN  CHOOSE q \in [1..Cardinality(S) -> S] :
            \A i, k \in 1..Cardinality(S) : i < k => LexLess(q[i], q[k])

\* the line holds only spaces
IsBlank(l) == \A i \in 1..Len(l) : l[i] = " "

\* the line is a comment
IsComment(l) == l # <<>> /\ l[1] = "#"

\* the line names a file once trimmed
NamesFile(l) == Trimmed(l) # <<>> /\ Trimmed(l)[1] # "#"

\* the line names a file as it stands
NamesFileLiterally(l) == ~IsBlank(l) /\ ~IsComment(l)

KeyDistSq(c) ==
    LET p == job.img.px[c]
        k == job.key
    IN  (p[1] - k[1]) * (p[1] - k[1]) + (p[2] - k[2]) * (p[2] - k[2])
            + (p[3] - k[3]) * (p[3] - k[3])

\* C14: a pixel within distance 35 of the key ends with alpha 0, a pixel at
\* distance 75 or more is unchanged, and in every case RGB is unchanged and
\* alpha does not grow; a pixel equal to the key ends with alpha 0.
C14_KeyedAlpha ==
    result.kind = "keyed" =>
        \A c \in DOMAIN job.img.px :
            LET p == job.img.px[c]
                q == result.img.px[c]
            IN  /\ <<q[1], q[2], q[3]>> = <<p[1], p[2], p[3]>>
                /\ q[4] <= p[4]
                /\ KeyDistSq(c) <= 35 * 35 => q[4] = 0
                /\ KeyDistSq(c) >= 75 * 75 => q = p
                /\ <<p[1], p[2], p[3]>> = job.key => q[4] = 0

C14_Witness ==
    /\ result.kind = "keyed"
    /\ job.key = <<21, 28, 0>>
    /\ job.img.w = 2
    /\ job.img.px[<<0, 0>>] = <<21, 28, 0, 255>>
    /\ job.img.px[<<1, 0>>] = <<255, 28, 255, 100>>
    /\ result.img.px[<<0, 0>>] = <<21, 28, 0, 0>>
    /\ result.img.px[<<1, 0>>] = <<255, 28, 255, 100>>

\* the pixel lies in the feather band, 35 < d < 75
InBand(c) == KeyDistSq(c) > 35 * 35 /\ KeyDistSq(c) < 75 * 75

\* n is round(255 * (d - 35) / 40) for d the distance of pixel c
IsRounded(n, c) ==
    /\ (80 * n - 40 + 17850) * (80 * n - 40 + 17850) <= 4 * 65025 * KeyDistSq(c)
    /\ (80 * n + 40 + 17850) * (80 * n + 40 + 17850) > 4 * 65025 * KeyDistSq(c)

\* n is floor(255 * (d - 35) / 40) for d the distance of pixel c
IsFloored(n, c) ==
    /\ (40 * n + 8925) * (40 * n + 8925) <= 65025 * KeyDistSq(c)
    /\ (40 * n + 40 + 8925) * (40 * n + 40 + 8925) > 65025 * KeyDistSq(c)

Sampled ==
    LET w == job.img.w
        h == job.img.h
        lim(v, hi) == IF v < 0 THEN 0 ELSE IF v > hi THEN hi ELSE v
        pts == << <<0, 0>>, <<1, 0>>, <<0, 1>>,
                  <<w - 1, 0>>, <<w - 2, 0>>, <<w - 1, 1>>,
                  <<0, h - 1>>, <<1, h - 1>>, <<0, h - 2>>,
                  <<w - 1, h - 1>>, <<w - 2, h - 1>>, <<w - 1, h - 2>> >>
    IN  [i \in 1..12 |-> job.img.px[<<lim(pts[i][1], w - 1), lim(pts[i][2], h - 1)>>]]

\* how often the colour of sample i occurs among the samples
Votes(i) == Cardinality({k \in 1..12 : Sampled[k] = Sampled[i]})

\* C16: auto_key returns the most frequent of the 12 sampled colours and, on
\* a tie, the one that comes first in the sample order.
C16_FirstMostFrequent ==
    result.kind = "autokey" =>
        \E i \in 1..12 :
            /\ result.key = Sampled[i]
            /\ \A k \in 1..12 : Votes(k) <= Votes(i)
            /\ \A k \in 1..(i - 1) : Votes(k) < Votes(i)

\* C17: when a batch run is over, every discovered file that decodes has been
\* written to its mirrored path, whatever files failed.
C17_BatchSurvivesFailure ==
    (job.kind = "batch" /\ job.in_exists /\ result # NoJob
        /\ result.status \in {"done", "raised"})
        => \A p \in job.good : p \in result.written

\* the handler that ran last executed schedule_next_action: at one of its call
\* sites, or as seen from the action timer it armed
ScheduleRan ==
    \/ event.op = "init" /\ mode = "engine"
    \/ /\ event.op = "tick"
       /\ before.current_frames # <<>>
       /\ Exhausting(before)
       /\ ~before.current_loop
       /\ error = ""
    \/ event.op \in {"behavior_timeout", "menu_random"} /\ Choices(before.anims) = {}
    \/ /\ behavior_timer.active
       /\ (event.op = "behavior_timeout" \/ behavior_timer # before.behavior_timer)

\* C18: schedule_next_action is executed only while the current animation is
\* idle (in the fallback window, where no animation was ever started, it is
\* executed only with no current animation at all); it is never executed
\* while a non-idle animation is the current one.
C18_ScheduleOnlyWhenIdle ==
    ScheduleRan => IF mode = "engine" THEN current_anim = "idle" ELSE current_anim = ""

\* a non-idle animation completed and the tick re-armed the stopped action timer
C18_Witness ==
    /\ event.op = "tick"
    /\ before.current_anim \notin {"idle", ""}
    /\ ~before.behavior_timer.active
    /\ behavior_timer.active
    /\ current_anim = "idle"

\* the configured interval of the current animation
ConfiguredMs == IF current_anim = "idle" THEN IdleMs ELSE DefaultMs

\* C19: in a launched engine the frame timer runs with the configured interval
\* of the current animation, 300 ms exactly when it is idle and 100 ms for
\* every other animation, and a play that took effect leaves the frame timer
\* started with the interval of the animation it played.
C19_PeriodFollowsAnimation ==
    mode = "engine" =>
        /\ anim_timer = StartedTimer(ConfiguredMs)
        /\ frame_ms = ConfiguredMs
        /\ (anim_timer.interval = IdleMs <=> current_anim = "idle")
        /\ (played.name # "" /\ played.ticks = 0) =>
               /\ current_anim = played.name
               /\ anim_timer = StartedTimer(anim_speeds(played.name))

\* a play request switched the engine from idle to a non-idle animation and
\* the frame timer went from 300 ms to 100 ms
C19_Witness ==
    /\ mode = "engine"
    /\ played.name \notin {"", "idle"}
    /\ played.ticks = 0
    /\ before.current_anim = "idle"
    /\ before.anim_timer = StartedTimer(IdleMs)
    /\ anim_timer = StartedTimer(DefaultMs)

\* C20: under the handlers the program wires up, loop mode is on exactly when
\* the current animation is idle, and a non-idle animation has fewer ticks
\* left than it has frames: each tick moves it one frame on, and the tick from
\* its last frame returns the engine to looping idle.
C20_LoopIffIdle ==
    /\ mode = "engine" =>
          /\ current_loop <=> current_anim = "idle"
          /\ anim_i < Len(current_frames)
    /\ (event.op = "tick" /\ before.mode = "engine" /\ before.current_anim # "idle") =>
          IF Exhausting(before)
          THEN current_anim = "idle" /\ current_loop /\ anim_i = 0
          ELSE /\ current_anim = before.current_anim
               /\ ~current_loop
               /\ anim_i = before.anim_i + 1

\* a dragged window whose non-looping, non-idle animation has just run out
C20_Witness ==
    /\ event.op = "tick"
    /\ before.current_anim \notin {"idle", ""}
    /\ ~before.current_loop
    /\ Exhausting(before)
    /\ current_anim = "idle"
    /\ current_loop
    /\ pos # HomePos
    /\ bubble_visible
====
